---- MODULE Spec2Model ----
(***************************************************************************)
(* Model of the /graphql resource of falcon_graphql_server.py: the seven   *)
(* responders of GraphQLResource, the Allow after-hook, and the call to    *)
(* schema.execute.  One behaviour is the handling of one request: the      *)
(* server keeps no state between requests, so the initial states are the   *)
(* requests and the actions are the responders run on them.                *)
(***************************************************************************)
EXTENDS Integers, Sequences, FiniteSets, TLC

VARIABLES pc, req, resp, engineArgs, engineCalls, result, exc, streamRead

vars == <<pc, req, resp, engineArgs, engineCalls, result, exc, streamRead>>

(***************************************************************************)
(* Bounds.                                                                 *)
(***************************************************************************)
\* longest result.errors list the engine returns
MaxErrors == 2

(***************************************************************************)
(* Python values: a type tag and the value's text.                         *)
(***************************************************************************)
PyNone == [ty |-> "NoneType", val |-> "None"]

PyStr(s) == [ty |-> "str", val |-> s]

PyDict(text) == [ty |-> "dict", val |-> text]

\* bool(v)
Truthy(v) ==
    CASE v.ty = "NoneType" -> FALSE
      [] v.ty = "str" -> v.val # ""
      [] v.ty = "dict" -> v.val # "{}"
      [] v.ty = "list" -> v.val # "[]"
      [] OTHER -> v.val # "0"

\* str(v): a str is itself, a dict decoded with object_pairs_hook=OrderedDict
\* prints as an OrderedDict repr, None prints as "None"
Str(v) ==
    CASE v.ty = "str" -> v.val
      [] v.ty = "NoneType" -> "None"
      [] v.ty = "dict" /\ v.val = "{\"dice\":8}" -> "OrderedDict([('dice', 8)])"
      [] v.ty = "dict" /\ v.val = "{\"dice\":5}" -> "OrderedDict([('dice', 5)])"
      [] v.ty = "dict" -> "OrderedDict()"
      [] OTHER -> v.val

\* the texts of the model that json.loads accepts
ValidJsonTexts == {"{\"dice\":5}", "{\"dice\":8}"}

\* json.loads(text, object_pairs_hook=OrderedDict) on a parameter or field
\* text: the decoded value, or JSONDecodeError
JsonLoads(text) ==
    IF text \in ValidJsonTexts
    THEN [ok |-> TRUE, value |-> PyDict(text)]
    ELSE [ok |-> FALSE, value |-> PyNone]

(***************************************************************************)
(* The request universe.                                                   *)
(***************************************************************************)
Keys == {"query", "variables", "operationName"}

KeyOrder == <<"query", "variables", "operationName">>

Methods == {"GET", "POST", "OPTIONS", "HEAD", "PUT", "PATCH", "DELETE"}

\* values a URL (or form) parameter takes, per parameter
UrlVals ==
    [query |-> {"", "{q1}"},
     variables |-> {"", "{\"dice\":5}", "{bad"},
     operationName |-> {"", "Op1"}]

\* req.params: a mapping from the parameters present to their strings
\* (keep_blank_qs_values keeps a parameter with an empty value)
Params ==
    UNION { {f \in [K -> UNION {UrlVals[k] : k \in Keys}] :
                \A k \in K : f[k] \in UrlVals[k]} : K \in SUBSET Keys }

\* values a field of a JSON object body takes, per field
FieldVals ==
    [query |-> {PyStr(""), PyStr("{q2}")},
     variables |-> {PyStr(""), PyStr("{\"dice\":8}"), PyStr("{bad"),
                    PyDict("{\"dice\":8}")},
     operationName |-> {PyStr(""), PyStr("Op2")}]

JsonObjects ==
    UNION { {f \in [K -> UNION {FieldVals[k] : k \in Keys}] :
                \A k \in K : f[k] \in FieldVals[k]} : K \in SUBSET Keys }

NoItems == [k \in {} |-> PyNone]

\* the text of a string inside a JSON text
Escape(s) == IF s = "{\"dice\":8}" THEN "{\\\"dice\\\":8}" ELSE s

\* the JSON text of a field value
DumpsValue(v) == IF v.ty = "str" THEN "\"" \o Escape(v.val) \o "\"" ELSE v.val

RECURSIVE DumpsMembers(_, _)
DumpsMembers(f, ks) ==
    IF ks = <<>> THEN ""
    ELSE "\"" \o Head(ks) \o "\":" \o DumpsValue(f[Head(ks)])
         \o (IF Len(ks) > 1 THEN "," ELSE "") \o DumpsMembers(f, Tail(ks))

\* the JSON text of an object, its members in the order of KeyOrder
DumpsObject(f) ==
    "{" \o DumpsMembers(f, SelectSeq(KeyOrder, LAMBDA k : k \in DOMAIN f)) \o "}"

\* what a JSON body decodes to: an object, or null, 5, "query", []
JsonObject(f) == [ty |-> "dict", val |-> DumpsObject(f), items |-> f]

JsonNonObjects ==
    { [ty |-> "NoneType", val |-> "null", items |-> NoItems],
      [ty |-> "int", val |-> "5", items |-> NoItems],
      [ty |-> "str", val |-> "query", items |-> NoItems],
      [ty |-> "list", val |-> "[]", items |-> NoItems] }

JsonDocuments == {JsonObject(f) : f \in JsonObjects} \cup JsonNonObjects

NoDocument == [ty |-> "NoneType", val |-> "", items |-> NoItems]

\* request bodies: no bytes, bytes that are not UTF-8, text that is not
\* JSON, or the text of a JSON document
Bodies ==
    { [raw |-> "empty", text |-> "", value |-> NoDocument],
      [raw |-> "badutf8", text |-> "", value |-> NoDocument],
      [raw |-> "text", text |-> "{hello}", value |-> NoDocument] }
    \cup { [raw |-> "json", text |-> "", value |-> d] : d \in JsonDocuments }

NoContentType == "None"

\* the Content-Type values that name JSON
JsonContentTypes == {"application/json", "application/json; charset=utf-8"}

ContentTypes == {NoContentType, "application/graphql",
                 "application/x-www-form-urlencoded"} \cup JsonContentTypes

\* req.content_length: None (no header), 0, or the positive body length
ContentLengths == {"None", "0", "N"}

Requests ==
    { r \in [method : Methods, params : Params, content_type : ContentTypes,
             content_length : ContentLengths, body : Bodies] :
        /\ r.content_length = "0" => r.body.raw = "empty"
        /\ r.content_length = "N" => r.body.raw # "empty" }

\* raw_json.decode('utf-8'): the text of the body, or UnicodeDecodeError
Utf8Decode(body) ==
    CASE body.raw = "badutf8" -> [ok |-> FALSE, text |-> ""]
      [] body.raw = "empty" -> [ok |-> TRUE, text |-> ""]
      [] body.raw = "text" -> [ok |-> TRUE, text |-> body.text]
      [] OTHER -> [ok |-> TRUE,
                   text |-> IF body.value.ty = "str"
                            THEN "\"" \o body.value.val \o "\""
                            ELSE body.value.val]

\* json.loads of the decoded body: the document, or JSONDecodeError
JsonLoadsBody(body) ==
    IF body.raw = "json"
    THEN [ok |-> TRUE, value |-> body.value]
    ELSE [ok |-> FALSE, value |-> NoDocument]

\* `k in pd` is defined for a dict, a str and a list, and TypeError otherwise
Iterable(pd) == pd.ty \in {"dict", "str", "list"}

\* `k in pd`: key lookup in a dict, substring test in a str (no string of
\* the model properly contains a key), membership in a list
Contains(pd, k) ==
    CASE pd.ty = "dict" -> k \in DOMAIN pd.items
      [] pd.ty = "str" -> pd.val = k
      [] OTHER -> FALSE

\* `pd[k]` with a str key is defined for a dict only, TypeError otherwise
Subscriptable(pd) == pd.ty = "dict"

(***************************************************************************)
(* Outcomes of the part of a responder that precedes schema.execute.       *)
(***************************************************************************)
\* resp.status = HTTP_400, resp.body = the one-message error list, return
Reject(message, read) ==
    [kind |-> "reject", message |-> message, exception |-> "",
     query |-> PyNone, variables |-> PyNone, operation_name |-> PyNone,
     read |-> read]

\* the responder ends by an exception it does not catch
Fault(exception, read) ==
    [kind |-> "fault", message |-> "", exception |-> exception,
     query |-> PyNone, variables |-> PyNone, operation_name |-> PyNone,
     read |-> read]

\* the responder goes on to schema.execute(query, variable_values=variables
\* [, operation_name=operation_name])
Execute(query, variables, operation_name, read) ==
    [kind |-> "execute", message |-> "", exception |-> "",
     query |-> query, variables |-> variables,
     operation_name |-> operation_name, read |-> read]

\* `k in req.params and req.params[k]`
HasParam(params, k) == k \in DOMAIN params /\ params[k] # ""

(***************************************************************************)
(* on_get up to the call of schema.execute.                                *)
(***************************************************************************)
\* on_get with the variables parameter examined before the query parameter
GetNormalize_variablesFirst(r) ==
    IF HasParam(r.params, "variables") /\ ~JsonLoads(r.params["variables"]).ok
    THEN Reject("Variables are invalid JSON.", FALSE)
    ELSE IF ~HasParam(r.params, "query")
    THEN Reject("Must provide query string.", FALSE)
    ELSE Execute(PyStr(r.params["query"]),
                 IF HasParam(r.params, "variables")
                 THEN JsonLoads(r.params["variables"]).value ELSE PyStr(""),
                 IF HasParam(r.params, "operationName")
                 THEN PyStr(r.params["operationName"]) ELSE PyNone,
                 FALSE)

GetNormalize(r) ==
    IF ~HasParam(r.params, "query")
    THEN Reject("Must provide query string.", FALSE)
    ELSE
      LET query == PyStr(r.params["query"])
          loaded == JsonLoads(r.params["variables"])
          operation_name == IF HasParam(r.params, "operationName")
                            THEN PyStr(r.params["operationName"])
                            ELSE PyNone
      IN  IF HasParam(r.params, "variables")
          THEN IF loaded.ok
               THEN Execute(query, loaded.value, operation_name, FALSE)
               ELSE Reject("Variables are invalid JSON.", FALSE)
          ELSE Execute(query, PyStr(""), operation_name, FALSE)

(***************************************************************************)
(* on_post up to the call of schema.execute.                               *)
(***************************************************************************)
\* the operationName of a JSON body
PostJsonOperationName(pd, query, variables, operation_name) ==
    IF operation_name.ty # "NoneType"
    THEN Execute(query, variables, operation_name, TRUE)
    ELSE IF ~Iterable(pd)
    THEN Fault("TypeError", TRUE)
    ELSE IF ~Contains(pd, "operationName")
    THEN Execute(query, variables, operation_name, TRUE)
    ELSE IF ~Subscriptable(pd)
    THEN Fault("TypeError", TRUE)
    ELSE IF Truthy(pd.items["operationName"])
    THEN Execute(query, variables,
                 PyStr(Str(pd.items["operationName"])), TRUE)
    ELSE Execute(query, variables, operation_name, TRUE)

\* the variables of a JSON body
PostJsonVariables(pd, query, variables, operation_name) ==
    IF variables.ty # "NoneType"
    THEN PostJsonOperationName(pd, query, variables, operation_name)
    ELSE IF ~Truthy(pd)
    THEN PostJsonOperationName(pd, query, PyStr(""), operation_name)
    ELSE IF ~Iterable(pd)
    THEN Fault("TypeError", TRUE)
    ELSE IF ~Contains(pd, "variables")
    THEN PostJsonOperationName(pd, query, PyStr(""), operation_name)
    ELSE IF ~Subscriptable(pd)
    THEN Fault("TypeError", TRUE)
    ELSE IF ~Truthy(pd.items["variables"])
    THEN PostJsonOperationName(pd, query, PyStr(""), operation_name)
    ELSE LET loaded == JsonLoads(Str(pd.items["variables"]))
         IN  IF loaded.ok
             THEN PostJsonOperationName(pd, query, loaded.value,
                                        operation_name)
             ELSE Reject("Variables are invalid JSON.", TRUE)

\* the query of a JSON body, taken from the body whenever the body has one
PostJsonQuery_bodyWins(pd, query, variables, operation_name) ==
    IF Truthy(pd) /\ Iterable(pd) /\ Contains(pd, "query") /\ Subscriptable(pd)
    THEN PostJsonVariables(pd, PyStr(Str(pd.items["query"])), variables,
                           operation_name)
    ELSE IF query.ty = "NoneType"
    THEN Reject("Must provide query string.", TRUE)
    ELSE PostJsonVariables(pd, query, variables, operation_name)

\* the query of a JSON body
PostJsonQuery(pd, query, variables, operation_name) ==
    IF query.ty # "NoneType"
    THEN PostJsonVariables(pd, query, variables, operation_name)
    ELSE IF ~Truthy(pd)
    THEN Reject("Must provide query string.", TRUE)
    ELSE IF ~Iterable(pd)
    THEN Fault("TypeError", TRUE)
    ELSE IF ~Contains(pd, "query")
    THEN Reject("Must provide query string.", TRUE)
    ELSE IF ~Subscriptable(pd)
    THEN Fault("TypeError", TRUE)
    ELSE PostJsonVariables(pd, PyStr(Str(pd.items["query"])), variables,
                           operation_name)

\* 'content-type: application/json', an empty body accepted when the URL
\* has the query
PostJson_urlQuerySkipsBody(r, query, variables, operation_name) ==
    IF r.content_length \in {"None", "0"}
    THEN IF query.ty = "NoneType"
         THEN Reject("POST body sent invalid JSON.", FALSE)
         ELSE Execute(query, variables, operation_name, FALSE)
    ELSE IF ~Utf8Decode(r.body).ok
    THEN Fault("UnicodeDecodeError", TRUE)
    ELSE IF ~JsonLoadsBody(r.body).ok
    THEN Reject("POST body sent invalid JSON.", TRUE)
    ELSE PostJsonQuery(JsonLoadsBody(r.body).value, query, variables,
                       operation_name)

\* 'content-type: application/json'
PostJson(r, query, variables, operation_name) ==
    IF r.content_length \in {"None", "0"}
    THEN Reject("POST body sent invalid JSON.", FALSE)
    ELSE IF ~Utf8Decode(r.body).ok
    THEN Fault("UnicodeDecodeError", TRUE)
    ELSE IF ~JsonLoadsBody(r.body).ok
    THEN Reject("POST body sent invalid JSON.", TRUE)
    ELSE PostJsonQuery(JsonLoadsBody(r.body).value, query, variables,
                       operation_name)

\* 'content-type: application/graphql'
PostGraphql(r, query, variables, operation_name) ==
    IF ~Utf8Decode(r.body).ok
    THEN Fault("UnicodeDecodeError", TRUE)
    ELSE IF query.ty = "NoneType" /\ Utf8Decode(r.body).text # ""
    THEN Execute(PyStr(Utf8Decode(r.body).text), variables, operation_name,
                 TRUE)
    ELSE IF query.ty = "NoneType"
    THEN Reject("Must provide query string.", TRUE)
    ELSE Execute(query, variables, operation_name, TRUE)

\* `req.content_type and t in req.content_type`: t is a substring of the
\* header value, which may carry a charset parameter
ContentTypeIs(r, t) ==
    /\ r.content_type # NoContentType
    /\ r.content_type \in {t, t \o "; charset=utf-8"}

\* the branch on the content type, after the URL parameters
PostBody(r, query, variables, operation_name) ==
    IF ContentTypeIs(r, "application/json")
    THEN PostJson(r, query, variables, operation_name)
    ELSE IF ContentTypeIs(r, "application/graphql")
    THEN PostGraphql(r, query, variables, operation_name)
    ELSE IF query.ty = "NoneType"
    THEN Reject("Must provide query string.", FALSE)
    ELSE Execute(query, variables, operation_name, FALSE)

\* on_post with an undecodable URL variables parameter treated as absent
PostNormalize_fallback(r) ==
    LET query == IF HasParam(r.params, "query")
                 THEN PyStr(r.params["query"]) ELSE PyNone
        loaded == JsonLoads(r.params["variables"])
        operation_name == IF HasParam(r.params, "operationName")
                          THEN PyStr(r.params["operationName"])
                          ELSE PyNone
    IN  IF HasParam(r.params, "variables") /\ loaded.ok
        THEN PostBody(r, query, loaded.value, operation_name)
        ELSE PostBody(r, query, PyNone, operation_name)

PostNormalize(r) ==
    LET query == IF HasParam(r.params, "query")
                 THEN PyStr(r.params["query"]) ELSE PyNone
        loaded == JsonLoads(r.params["variables"])
        operation_name == IF HasParam(r.params, "operationName")
                          THEN PyStr(r.params["operationName"])
                          ELSE PyNone
    IN  IF HasParam(r.params, "variables")
        THEN IF loaded.ok
             THEN PostBody(r, query, loaded.value, operation_name)
             ELSE Reject("Variables are invalid JSON.", FALSE)
        ELSE PostBody(r, query, PyNone, operation_name)

(***************************************************************************)
(* Responses and engine results.                                           *)
(***************************************************************************)
NoBody == "None"

\* the response object the framework hands to the responder
NoResponse == [status |-> "unset", body |-> NoBody, allow |-> ""]

NoArgs == [query |-> PyNone, variables |-> PyNone, operation_name |-> PyNone]

NoResult == [data |-> PyNone, errors |-> <<>>]

ErrorMessages == {"Cannot query field."}

\* the results of schema.execute: data is absent, {} or an object; errors is
\* empty (None) or a list of errors
Results ==
    [data : {PyNone, PyDict("{}"), PyDict("{\"hello\":\"Hello world!\"}")},
     errors : UNION {[1..n -> ErrorMessages] : n \in 0..MaxErrors}]

RECURSIVE DumpsMessages(_)
DumpsMessages(msgs) ==
    IF msgs = <<>> THEN ""
    ELSE "{\"message\":\"" \o Head(msgs) \o "\"}"
         \o (IF Len(msgs) > 1 THEN "," ELSE "") \o DumpsMessages(Tail(msgs))

\* json.dumps({"errors": [{"message": m} ...]}, separators=(',', ':'))
ErrorBody(msgs) == "{\"errors\":[" \o DumpsMessages(msgs) \o "]}"

\* json.dumps({'data': data}, separators=(',', ':'))
DataBody(data) == "{\"data\":" \o data.val \o "}"

\* set_graphql_allow_header, run by falcon.after once the responder returned
set_graphql_allow_header(rs) == [rs EXCEPT !.allow = "GET, POST, OPTIONS"]

\* on_get: construct the response from the result
GetFormat(res) ==
    IF Truthy(res.data)
    THEN [raised |-> FALSE, status |-> "HTTP_200", body |-> DataBody(res.data)]
    ELSE IF res.errors # <<>>
    THEN [raised |-> FALSE, status |-> "HTTP_400", body |-> ErrorBody(res.errors)]
    ELSE [raised |-> TRUE, status |-> "unset", body |-> NoBody]

\* on_post: construct the response from the result
PostFormat(res) ==
    IF Truthy(res.data)
    THEN [raised |-> FALSE, status |-> "HTTP_200", body |-> DataBody(res.data)]
    ELSE IF res.errors # <<>>
    THEN [raised |-> FALSE, status |-> "HTTP_400", body |-> ErrorBody(res.errors)]
    ELSE [raised |-> TRUE, status |-> "unset", body |-> NoBody]

MethodNotAllowedBody ==
    ErrorBody(<<"GraphQL only supports GET and POST requests.">>)

(***************************************************************************)
(* The state machine of one request.                                       *)
(***************************************************************************)
Init ==
    /\ pc = "start"
    /\ req \in Requests
    /\ resp = NoResponse
    /\ engineArgs = NoArgs
    /\ engineCalls = 0
    /\ result = NoResult
    /\ exc = ""
    /\ streamRead = FALSE

\* the responder returns with the given status and body; the after-hook runs
Return(status, body) ==
    /\ pc' = "done"
    /\ resp' = set_graphql_allow_header(
                   [resp EXCEPT !.status = status, !.body = body])
    /\ exc' = ""

\* the responder ends by an exception; the after-hook does not run
Raise(exception) ==
    /\ pc' = "done"
    /\ resp' = resp
    /\ exc' = exception

\* the steps of on_get and on_post with schema.execute called before the
\* outcome of normalization is looked at
Proceed_executeFirst(o) ==
    /\ streamRead' = o.read
    /\ engineCalls' = engineCalls + 1
    /\ CASE o.kind = "reject" ->
              /\ Return("HTTP_400", ErrorBody(<<o.message>>))
              /\ UNCHANGED engineArgs
         [] o.kind = "fault" ->
              /\ Raise(o.exception)
              /\ UNCHANGED engineArgs
         [] OTHER ->
              /\ pc' = "engine"
              /\ engineArgs' = [query |-> o.query, variables |-> o.variables,
                                operation_name |-> o.operation_name]
              /\ UNCHANGED <<resp, exc>>
    /\ UNCHANGED <<req, result>>

\* the steps of on_get and on_post from the outcome of normalization
Proceed(o) ==
    /\ streamRead' = o.read
    /\ CASE o.kind = "reject" ->
              /\ Return("HTTP_400", ErrorBody(<<o.message>>))
              /\ UNCHANGED <<engineArgs, engineCalls>>
         [] o.kind = "fault" ->
              /\ Raise(o.exception)
              /\ UNCHANGED <<engineArgs, engineCalls>>
         [] OTHER ->
              /\ pc' = "engine"
              /\ engineArgs' = [query |-> o.query, variables |-> o.variables,
                                operation_name |-> o.operation_name]
              /\ engineCalls' = engineCalls + 1
              /\ UNCHANGED <<resp, exc>>
    /\ UNCHANGED <<req, result>>

\* the steps of on_get and on_post after schema.execute returned
Respond(f) ==
    /\ IF f.raised THEN Raise("RuntimeError") ELSE Return(f.status, f.body)
    /\ UNCHANGED <<req, engineArgs, engineCalls, streamRead>>

on_options ==
    /\ pc = "start" /\ req.method = "OPTIONS"
    /\ Return("HTTP_204", resp.body)
    /\ UNCHANGED <<req, engineArgs, engineCalls, result, streamRead>>

on_head ==
    /\ pc = "start" /\ req.method = "HEAD"
    /\ Return(resp.status, resp.body)
    /\ UNCHANGED <<req, engineArgs, engineCalls, result, streamRead>>

on_get ==
    /\ pc = "start" /\ req.method = "GET"
    /\ Proceed(GetNormalize(req))

on_get_result ==
    /\ pc = "engine" /\ req.method = "GET"
    /\ \E res \in Results :
         /\ result' = res
         /\ Respond(GetFormat(res))

on_post ==
    /\ pc = "start" /\ req.method = "POST"
    /\ Proceed(PostNormalize(req))

on_post_result ==
    /\ pc = "engine" /\ req.method = "POST"
    /\ \E res \in Results :
         /\ result' = res
         /\ Respond(PostFormat(res))

on_put ==
    /\ pc = "start" /\ req.method = "PUT"
    /\ Return("HTTP_405", MethodNotAllowedBody)
    /\ UNCHANGED <<req, engineArgs, engineCalls, result, streamRead>>

on_patch ==
    /\ pc = "start" /\ req.method = "PATCH"
    /\ Return("HTTP_405", MethodNotAllowedBody)
    /\ UNCHANGED <<req, engineArgs, engineCalls, result, streamRead>>

on_delete ==
    /\ pc = "start" /\ req.method = "DELETE"
    /\ Return("HTTP_405", MethodNotAllowedBody)
    /\ UNCHANGED <<req, engineArgs, engineCalls, result, streamRead>>

Next ==
    \/ on_options
    \/ on_head
    \/ on_get
    \/ on_get_result
    \/ on_post
    \/ on_post_result
    \/ on_put
    \/ on_patch
    \/ on_delete

Spec == Init /\ [][Next]_vars

TypeOK ==
    /\ pc \in {"start", "engine", "done"}
    /\ req \in Requests
    /\ engineCalls \in 0..1
    /\ result \in Results
    /\ streamRead \in BOOLEAN

(***************************************************************************)
(* Properties.                                                             *)
(***************************************************************************)
MustProvideQuery == ErrorBody(<<"Must provide query string.">>)

VariablesInvalid == ErrorBody(<<"Variables are invalid JSON.">>)

BodyInvalid == ErrorBody(<<"POST body sent invalid JSON.">>)

NormalizationBodies == {MustProvideQuery, VariablesInvalid, BodyInvalid}

\* the URL variables parameter is non-empty and is not JSON
UrlVariablesInvalid ==
    /\ "variables" \in DOMAIN req.params
    /\ req.params["variables"] \notin {"", "{\"dice\":5}"}

\* the body is a JSON object whose variables field is a non-empty string
\* that is not JSON
BodyVariablesInvalid ==
    /\ req.content_type \in JsonContentTypes
    /\ req.body.raw = "json" /\ req.body.value.ty = "dict"
    /\ "variables" \in DOMAIN req.body.value.items
    /\ req.body.value.items["variables"] = PyStr("{bad")

\* the engine was called for this request
Called == engineCalls > 0

C2_AnyInvalidVariables ==
    (pc = "done" /\ req.method \in {"GET", "POST"}
       /\ (UrlVariablesInvalid \/ (req.method = "POST" /\ BodyVariablesInvalid)))
    => (resp.status = "HTTP_400" /\ resp.body = VariablesInvalid)

\* C2 amended: the variables value that is not JSON is answered 400
\* "Variables are invalid JSON." when it is the URL value of a POST, the URL
\* value of a GET that has a query, or the body value of a JSON POST that
\* has a body length, no URL variables and a query in the URL or the body;
\* the engine is not called.
C2_InvalidVariablesUsed ==
    (pc = "done" /\
       \/ req.method = "POST" /\ UrlVariablesInvalid
       \/ req.method = "GET" /\ UrlVariablesInvalid
            /\ HasParam(req.params, "query")
       \/ req.method = "POST" /\ BodyVariablesInvalid
            /\ req.content_length = "N"
            /\ ~HasParam(req.params, "variables")
            /\ (HasParam(req.params, "query")
                  \/ "query" \in DOMAIN req.body.value.items))
    => (resp.status = "HTTP_400" /\ resp.body = VariablesInvalid /\ ~Called)

\* a POST with URL variables that are not JSON and a JSON body whose
\* variables are JSON has been answered
C2_Witness ==
    /\ pc = "done" /\ req.method = "POST" /\ UrlVariablesInvalid
    /\ req.content_type = "application/json" /\ req.content_length = "N"
    /\ req.body.raw = "json" /\ req.body.value.ty = "dict"
    /\ DOMAIN req.body.value.items = Keys
    /\ req.body.value.items["variables"] = PyStr("{\"dice\":8}")
    /\ req.body.value.items["query"] = PyStr("{q2}")

\* C3: the query the engine gets is never empty
C3_QueryNeverEmpty ==
    Called => (engineArgs.query.ty = "str" /\ engineArgs.query.val # "")

\* C4: a result with neither data nor errors is answered by a response with
\* a status of its own and a body, the responder returning normally
C4_EmptyResultSurfaced ==
    (pc = "done" /\ Called /\ result.data.ty = "NoneType"
       /\ result.errors = <<>>)
    => (exc = "" /\ resp.status \notin {"unset", "HTTP_200", "HTTP_400"}
          /\ resp.body # NoBody)

\* C5: a result whose data is present, empty or not, with or without
\* errors, is answered 200 {"data": <data>}; the answer is the 400 error
\* list only when data is absent and errors is not empty
C5_DataPresentIs200 ==
    (pc = "done" /\ Called) =>
        /\ result.data.ty # "NoneType" =>
               (resp.status = "HTTP_200" /\ resp.body = DataBody(result.data))
        /\ resp.status = "HTTP_400" =>
               (result.data.ty = "NoneType" /\ result.errors # <<>>)

\* C6: a GET whose URL has no query parameter or an empty one is answered
\* 400 "Must provide query string.", whatever else it carries; the body
\* stream is not read and the engine is not called
C6_GetWithoutQuery ==
    (pc = "done" /\ req.method = "GET"
       /\ ("query" \notin DOMAIN req.params \/ req.params["query"] = ""))
    => (resp.status = "HTTP_400" /\ resp.body = MustProvideQuery
          /\ ~streamRead /\ ~Called)

\* a GET with no query, variables that are not JSON and a JSON body has been
\* answered
C6_Witness ==
    /\ pc = "done" /\ req.method = "GET"
    /\ "query" \notin DOMAIN req.params
    /\ UrlVariablesInvalid
    /\ req.body.raw = "json" /\ req.content_type = "application/json"

\* the POST has a JSON content type and no body length
JsonPostWithoutBody ==
    /\ req.method = "POST" /\ req.content_type \in JsonContentTypes
    /\ req.content_length \in {"None", "0"}

\* C7 as stated: a JSON POST with an empty or absent body is answered 400
\* "POST body sent invalid JSON.", whatever the URL parameters
C7_EmptyJsonBodyAlways ==
    (pc = "done" /\ JsonPostWithoutBody /\ req.body.raw = "empty")
    => (resp.status = "HTTP_400" /\ resp.body = BodyInvalid)

\* C7 amended: a JSON POST with content length 0 or missing is answered 400
\* "POST body sent invalid JSON." whatever the URL query and operationName,
\* provided the URL variables are absent, empty or JSON; URL variables that
\* are not JSON are answered first, by 400 "Variables are invalid JSON."
C7_EmptyJsonBody ==
    (pc = "done" /\ JsonPostWithoutBody) =>
        /\ resp.status = "HTTP_400" /\ ~Called
        /\ resp.body = IF UrlVariablesInvalid THEN VariablesInvalid
                       ELSE BodyInvalid

\* a JSON POST with content length 0 whose URL supplies all three fields has
\* been answered
C7_Witness ==
    /\ pc = "done" /\ JsonPostWithoutBody /\ req.content_length = "0"
    /\ req.content_type = "application/json; charset=utf-8"
    /\ \A k \in Keys : HasParam(req.params, k)
    /\ ~UrlVariablesInvalid
    /\ resp.body = BodyInvalid

\* C8: every response carries Allow: GET, POST, OPTIONS, and OPTIONS is
\* answered 204
C8_AllowAlways ==
    pc = "done" =>
        /\ resp.allow = "GET, POST, OPTIONS"
        /\ req.method = "OPTIONS" => resp.status = "HTTP_204"

\* C9: with a well-formed engine result, every GET and POST ends in a 200 or
\* 400 response with a body, never in an exception
C9_NoRawFault ==
    (pc = "done" /\ req.method \in {"GET", "POST"}
       /\ (Called => (result.data.ty # "NoneType" \/ result.errors # <<>>)))
    => (exc = "" /\ resp.status \in {"HTTP_200", "HTTP_400"}
          /\ resp.body # NoBody)

\* C10: the engine is called at most once, on GET and POST only; a request
\* answered by a normalization error is answered without an engine call; the
\* response is not written while the engine call is pending
C10_EngineOnceAfterNormalization ==
    /\ engineCalls <= 1
    /\ Called => req.method \in {"GET", "POST"}
    /\ (pc = "done" /\ resp.body \in NormalizationBodies) => ~Called
    /\ pc = "engine" => (Called /\ resp = NoResponse /\ exc = "")
    /\ (pc = "done" /\ exc = "" /\ req.method \in {"GET", "POST"}
          /\ resp.body \notin NormalizationBodies) => Called
    /\ pc = "start" => (~Called /\ resp = NoResponse)

\* a POST has been answered 200 after its one engine call
C10_Witness ==
    /\ pc = "done" /\ req.method = "POST" /\ engineCalls = 1
    /\ resp.status = "HTTP_200"

====
